---- MODULE Spec2Model ----
(***************************************************************************)
(* Model of src/server.js: the resume-request backend.                     *)
(*                                                                         *)
(* The table resume_requests is the sequence rows (the AUTO_INCREMENT id   *)
(* of a row is its index).  Every route handler is an async function: it   *)
(* runs up to its next await, and other handlers, timer callbacks and the  *)
(* clock may run before it resumes.  Each action below is one such         *)
(* segment: the awaited call (a query, a mail) together with the           *)
(* synchronous code that follows it.  The column created_at is written     *)
(* once by the INSERT and never read by any handler; it is not part of     *)
(* the state.  Only the INSERT is modelled as a query that can fail.       *)
(* A setTimeout callback stays in timers until it has run; while          *)
(* MaxTimers of them are pending, the handler that would add one waits.    *)
(* The table's schema is not part of the repository: approved_at is taken  *)
(* to hold the Date the UPDATE was given, to the millisecond.              *)
(***************************************************************************)
EXTENDS Integers, Sequences, FiniteSets, TLC

\* ---------------------------------------------------------------- bounds
MaxRows   == 2      \* rows the table may hold
MaxInFlight == 2    \* handler invocations suspended at an await at once
Slack     == 1      \* ms of clock resolution after time 0 and after one window
MaxTimers == 1      \* setTimeout callbacks pending at once

\* ------------------------------------------------------- program constants
LINK_EXPIRY_MS == 3 * 60 * 1000

NULL == -1          \* SQL NULL / JS null in approved_at

ReqIds    == 1..(MaxRows + 1)         \* :requestId values a caller may send
Names     == {"", "Alice"}            \* "" stands for an absent/empty field
Emails    == {"", "a@x.com", "b@x.com"}
Reasons   == {"", "review"}
\* the instants at which the clock is observed
Instants  == (0..Slack) \cup (LINK_EXPIRY_MS..(LINK_EXPIRY_MS + Slack))

VARIABLES
    rows,         \* table resume_requests: id -> row
    now,          \* wall clock in ms (new Date())
    inflight,     \* handler invocations suspended at an await: position and locals
    timers,       \* pending setTimeout callbacks
    last          \* what the step just taken answered (observation)

vars == <<rows, now, inflight, timers, last>>

NoRow  == [name |-> "", email |-> "", reason |-> "", status |-> "none", approved_at |-> NULL]
NoRet  == [status |-> "none", id |-> 0, approved_at |-> NULL]
NoResp == [op |-> "none", outcome |-> "none", id |-> 0, email |-> "", r |-> NoRow,
           at |-> NULL, mail |-> "none", scheduled |-> FALSE, ret |-> NoRet]

\* const { name, email, reason } = req.body
Body(name, email, reason) == [NoRow EXCEPT !.name = name, !.email = email, !.reason = reason]

\* !x for a string field of req.body / a row
Falsy(s) == s = ""

\* !r.approved_at : a Date object is truthy, only null is falsy
NoTimestamp(t) == t = NULL

\* mutant: the guard forgets reason
MissingNameOrEmail(name, email, reason) == Falsy(name) \/ Falsy(email)

\* the 400 guard of POST /request-resume
MissingField(name, email, reason) == Falsy(name) \/ Falsy(email) \/ Falsy(reason)

\* mutant: NOW() and NULL bound to the wrong columns
InsertRowStamped(name, email, reason) ==
    [name |-> name, email |-> email, reason |-> reason,
     status |-> "pending", approved_at |-> now]

\* VALUES (?, ?, ?, 'pending', NOW(), NULL)
InsertRow(name, email, reason) ==
    [name |-> name, email |-> email, reason |-> reason,
     status |-> "pending", approved_at |-> NULL]

\* mutant: the INSERT replaces the row that already has the email
InsertOrReplace(row) ==
    IF \E i \in DOMAIN rows : rows[i].email = row.email
    THEN [i \in DOMAIN rows |-> IF rows[i].email = row.email THEN row ELSE rows[i]]
    ELSE Append(rows, row)

\* INSERT INTO resume_requests: the table after the row is added
InsertInto(row) == Append(rows, row)

\* result.insertId of the next INSERT
InsertId == Len(rows) + 1

\* mutant: WHERE id <= ? ORDER BY id DESC LIMIT 1
FindByIdOrBelow(id) ==
    IF id \in DOMAIN rows THEN <<rows[id]>>
    ELSE IF Len(rows) > 0 /\ id > Len(rows) THEN <<rows[Len(rows)]>> ELSE <<>>

\* SELECT * FROM resume_requests WHERE id = ?   (list of rows)
FindById(id) == IF id \in DOMAIN rows THEN <<rows[id]>> ELSE <<>>

\* UPDATE resume_requests SET ... WHERE id = ?  (no row matched: no change)
\* mutant: WHERE id <= ?
UpdateWhereIdOrBelow(id, newRow) ==
    [i \in DOMAIN rows |->
        IF i <= id /\ id \in DOMAIN rows
        THEN [rows[i] EXCEPT !.status = newRow.status, !.approved_at = newRow.approved_at]
        ELSE rows[i]]

\* newRow: the matched row with the SET clause applied
UpdateWhereId(id, newRow) ==
    [i \in DOMAIN rows |-> IF i = id THEN newRow ELSE rows[i]]

\* mutant: the UPDATE without approved_at=?
ApproveRowNoStamp(r, t) == [r EXCEPT !.status = "approved"]

\* mutant: the approval applied to pending rows only
ApproveRowIfPending(r, t) ==
    IF r.status = "pending" THEN [r EXCEPT !.status = "approved", !.approved_at = t] ELSE r

\* SET status='approved', approved_at=?
ApproveRow(r, t) == [r EXCEPT !.status = "approved", !.approved_at = t]

\* mutant: the download handler's UPDATE without approved_at=NULL
ExpireRowKeepStamp(r) == [r EXCEPT !.status = "expired"]

\* SET status='expired', approved_at=NULL   (download handler)
ExpireRow(r) == [r EXCEPT !.status = "expired", !.approved_at = NULL]

\* mutant: the callback writes the wrong status literal
AutoExpireRowToPending(r) == [r EXCEPT !.status = "pending"]

\* SET status='expired'                     (setTimeout callback)
AutoExpireRow(r) == [r EXCEPT !.status = "expired"]

\* mutant: only pending rows are refused
NotApprovedPendingOnly(r) == r.status = "pending"

\* r.status !== "approved"
NotApproved(r) == r.status # "approved"

\* mutant: the window compared in minutes (LINK_EXPIRY_MS/60000) with a diff in ms
ExpiredInMinutes(diff) == diff > LINK_EXPIRY_MS \div 60000

\* mutant: diff >= LINK_EXPIRY_MS
ExpiredAtBoundary(diff) == diff >= LINK_EXPIRY_MS

\* diff > LINK_EXPIRY_MS
Expired(diff) == diff > LINK_EXPIRY_MS

\* ids of the rows WHERE email = ?
IdsByEmail(email) == {i \in DOMAIN rows : rows[i].email = email}

RECURSIVE MaxOf(_)
MaxOf(S) == LET x == CHOOSE y \in S : TRUE
            IN  IF S = {x} THEN x
                ELSE LET m == MaxOf(S \ {x}) IN IF x > m THEN x ELSE m

RECURSIVE MinOf(_)
MinOf(S) == LET x == CHOOSE y \in S : TRUE
            IN  IF S = {x} THEN x
                ELSE LET m == MinOf(S \ {x}) IN IF x < m THEN x ELSE m

\* mutant: ORDER BY id ASC
EarliestByEmail(email) ==
    IF IdsByEmail(email) = {} THEN <<>> ELSE <<MinOf(IdsByEmail(email))>>

\* WHERE email=? ORDER BY id DESC LIMIT 1   (list of ids of the rows returned)
LatestByEmail(email) ==
    IF IdsByEmail(email) = {} THEN <<>> ELSE <<MaxOf(IdsByEmail(email))>>

\* the handlers only compare emails for equality: the second address is
\* stored only once the first one is
InOrder(email) == email = "b@x.com" => \E i \in DOMAIN rows : rows[i].email = "a@x.com"

\* a new invocation may be suspended only while fewer than MaxInFlight are
CanSuspend == Cardinality(inflight) < MaxInFlight

\* last is read by the properties only.  A step is taken once the answer of
\* the step before it has left the process (Deliver), so that last always
\* describes the step just taken.
Quiet == last = NoResp

Init ==
    /\ rows = <<>>
    /\ now = 0
    /\ inflight = {}
    /\ timers = {}
    /\ last = NoResp

\* ---------------------------------------------------------------------
\* 1) POST /request-resume
\* ---------------------------------------------------------------------
\* validation, then the INSERT (insertOk: the query did not throw)
SubmitInsert(name, email, reason, insertOk) ==
    /\ Quiet
    /\ IF MissingField(name, email, reason)
       THEN /\ last' = [NoResp EXCEPT !.op = "Submit", !.outcome = "validation",
                                      !.r = Body(name, email, reason)]
            /\ UNCHANGED <<rows, inflight>>
       ELSE IF ~insertOk
       THEN /\ last' = [NoResp EXCEPT !.op = "Submit", !.outcome = "server_error",
                                      !.r = Body(name, email, reason)]
            /\ UNCHANGED <<rows, inflight>>
       ELSE /\ Len(rows) < MaxRows
            /\ CanSuspend
            /\ InOrder(email)
            /\ rows' = InsertInto(InsertRow(name, email, reason))
            /\ inflight' = inflight \cup
                   {[op |-> "Submit", pc |-> "notify", id |-> InsertId,
                     r |-> InsertRow(name, email, reason), at |-> NULL]}
            /\ last' = [NoResp EXCEPT !.op = "Submit", !.outcome = "inserted",
                                      !.id = InsertId, !.email = email,
                                      !.r = InsertRow(name, email, reason)]
    /\ UNCHANGED <<now, timers>>

\* the admin mail, then the 201 answer
\* (adminEmail: process.env.ADMIN_EMAIL is set; sendOk: sendMail did not throw)
SubmitNotify(h, adminEmail, sendOk) ==
    /\ Quiet /\ h \in inflight /\ h.op = "Submit" /\ h.pc = "notify"
    /\ inflight' = inflight \ {h}
    /\ LET base == [NoResp EXCEPT !.op = "Submit", !.id = h.id,
                                  !.email = h.r.email, !.r = h.r]
       IN  IF ~adminEmail
           THEN last' = [base EXCEPT !.outcome = "created", !.mail = "skipped",
                                     !.ret = [NoRet EXCEPT !.id = h.id]]
           ELSE IF sendOk
           THEN last' = [base EXCEPT !.outcome = "created", !.mail = "admin",
                                     !.ret = [NoRet EXCEPT !.id = h.id]]
           ELSE last' = [base EXCEPT !.outcome = "server_error", !.mail = "failed"]
    /\ UNCHANGED <<rows, now, timers>>

\* ---------------------------------------------------------------------
\* 2) GET /request-status/:email
\* ---------------------------------------------------------------------
GetStatus(email) ==
    /\ Quiet
    /\ LET found == LatestByEmail(email)
       IN  IF Len(found) = 0
           THEN last' = [NoResp EXCEPT !.op = "GetStatus", !.outcome = "status",
                                       !.email = email]
           ELSE last' = [NoResp EXCEPT !.op = "GetStatus", !.outcome = "status",
                                       !.email = email,
                                       !.ret = [status |-> rows[found[1]].status,
                                                id |-> found[1],
                                                approved_at |-> rows[found[1]].approved_at]]
    /\ UNCHANGED <<rows, now, inflight, timers>>

\* ---------------------------------------------------------------------
\* 3) GET /admin-approve/:requestId
\* ---------------------------------------------------------------------
ApprovesInFlight == {h \in inflight : h.op = "Approve"}

\* the SELECT, the 404 answer, approvalTime = new Date()
\* (every Approve in flight will need a setTimeout: at most MaxTimers of them)
ApproveSelect(id) ==
    /\ Quiet
    /\ LET found == FindById(id)
       IN  IF Len(found) = 0
           THEN /\ last' = [NoResp EXCEPT !.op = "Approve", !.outcome = "not_found",
                                          !.id = id]
                /\ UNCHANGED inflight
           ELSE /\ CanSuspend
                /\ Cardinality(ApprovesInFlight) < MaxTimers
                /\ inflight' = inflight \cup
                       {[op |-> "Approve", pc |-> "update", id |-> id,
                         r |-> found[1], at |-> now]}
                /\ last' = NoResp
    /\ UNCHANGED <<rows, now, timers>>

\* the UPDATE
ApproveUpdate(h) ==
    /\ Quiet /\ h \in inflight /\ h.op = "Approve" /\ h.pc = "update"
    /\ rows' = UpdateWhereId(h.id, ApproveRow(rows[h.id], h.at))
    /\ inflight' = (inflight \ {h}) \cup {[h EXCEPT !.pc = "notify"]}
    /\ last' = [NoResp EXCEPT !.op = "Approve", !.outcome = "updated", !.id = h.id,
                              !.r = h.r, !.at = h.at]
    /\ UNCHANGED <<now, timers>>

\* the requester mail (sendOk: sendMail did not throw), setTimeout, the answer
ApproveNotify(h, sendOk) ==
    /\ Quiet /\ h \in inflight /\ h.op = "Approve" /\ h.pc = "notify"
    /\ inflight' = inflight \ {h}
    /\ LET base == [NoResp EXCEPT !.op = "Approve", !.id = h.id,
                                  !.email = h.r.email, !.r = h.r, !.at = h.at]
           timer == [id |-> h.id, due |-> now + LINK_EXPIRY_MS, pc |-> "wait"]
       IN  IF ~Falsy(h.r.email) /\ ~sendOk
           THEN /\ last' = [base EXCEPT !.outcome = "server_error", !.mail = "failed"]
                /\ UNCHANGED timers
           ELSE /\ last' = [base EXCEPT !.outcome = "approved",
                                        !.mail = IF Falsy(h.r.email)
                                                 THEN "skipped" ELSE "user",
                                        !.scheduled = TRUE]
                /\ Cardinality(timers \cup {timer}) <= MaxTimers
                /\ timers' = timers \cup {timer}
    /\ UNCHANGED <<rows, now>>

\* the setTimeout callback: the SELECT and the test of the status read
TimerSelect(t) ==
    /\ Quiet /\ t \in timers /\ t.pc = "wait"
    /\ now >= t.due
    /\ LET r2 == FindById(t.id)
       IN  IF Len(r2) # 0 /\ r2[1].status = "approved"
           THEN timers' = (timers \ {t}) \cup {[t EXCEPT !.pc = "update"]}
           ELSE timers' = timers \ {t}
    /\ last' = NoResp
    /\ UNCHANGED <<rows, now, inflight>>

\* the setTimeout callback: its UPDATE
TimerUpdate(t) ==
    /\ Quiet /\ t \in timers /\ t.pc = "update"
    /\ rows' = UpdateWhereId(t.id, AutoExpireRow(rows[t.id]))
    /\ timers' = timers \ {t}
    /\ last' = [NoResp EXCEPT !.op = "Timer", !.outcome = "auto_expired", !.id = t.id]
    /\ UNCHANGED <<now, inflight>>

\* ---------------------------------------------------------------------
\* 4) GET /download-resume/:requestId
\* ---------------------------------------------------------------------
\* the SELECT and the 404 answer
DownloadSelect(id) ==
    /\ Quiet
    /\ LET found == FindById(id)
       IN  IF Len(found) = 0
           THEN /\ last' = [NoResp EXCEPT !.op = "Download", !.outcome = "not_found",
                                          !.id = id]
                /\ UNCHANGED inflight
           ELSE /\ CanSuspend
                /\ inflight' = inflight \cup
                       {[op |-> "Download", pc |-> "check", id |-> id,
                         r |-> found[1], at |-> NULL]}
                /\ last' = NoResp
    /\ UNCHANGED <<rows, now, timers>>

\* the status, timestamp and expiry checks on the row read; now = new Date()
DownloadCheck(h) ==
    /\ Quiet /\ h \in inflight /\ h.op = "Download" /\ h.pc = "check"
    /\ LET base == [NoResp EXCEPT !.op = "Download", !.id = h.id, !.r = h.r, !.at = now]
       IN  IF NotApproved(h.r)
           THEN /\ last' = [base EXCEPT !.outcome = "forbidden"]
                /\ inflight' = inflight \ {h}
           ELSE IF NoTimestamp(h.r.approved_at)
           THEN /\ last' = [base EXCEPT !.outcome = "timestamp_missing"]
                /\ inflight' = inflight \ {h}
           ELSE IF Expired(now - h.r.approved_at)
           THEN /\ last' = NoResp
                /\ inflight' = (inflight \ {h}) \cup {[h EXCEPT !.pc = "update", !.at = now]}
           ELSE /\ last' = [base EXCEPT !.outcome = "document"]
                /\ inflight' = inflight \ {h}
    /\ UNCHANGED <<rows, now, timers>>

\* the UPDATE that marks the row expired, then the 403 "expired" answer
DownloadUpdate(h) ==
    /\ Quiet /\ h \in inflight /\ h.op = "Download" /\ h.pc = "update"
    /\ rows' = UpdateWhereId(h.id, ExpireRow(rows[h.id]))
    /\ inflight' = inflight \ {h}
    /\ last' = [NoResp EXCEPT !.op = "Download", !.outcome = "expired",
                              !.id = h.id, !.r = h.r, !.at = h.at]
    /\ UNCHANGED <<now, timers>>

\* ---------------------------------------------------------------------
\* environment
\* ---------------------------------------------------------------------
\* time passes, to a later instant
Tick(t) ==
    /\ Quiet
    /\ t > now
    /\ now' = t
    /\ last' = NoResp
    /\ UNCHANGED <<rows, inflight, timers>>

\* the process exits and starts again: handlers in flight and pending
\* setTimeout callbacks are gone, the table stays
Restart ==
    /\ Quiet
    /\ inflight # {} \/ timers # {}
    /\ inflight' = {}
    /\ timers' = {}
    /\ last' = NoResp
    /\ UNCHANGED <<rows, now>>

\* the answer of the step just taken has been sent
Deliver ==
    /\ ~Quiet
    /\ last' = NoResp
    /\ UNCHANGED <<rows, now, inflight, timers>>

Next ==
    \/ \E name \in Names, email \in Emails, reason \in Reasons, insertOk \in BOOLEAN :
          SubmitInsert(name, email, reason, insertOk)
    \/ \E h \in inflight, adminEmail \in BOOLEAN, sendOk \in BOOLEAN :
          SubmitNotify(h, adminEmail, sendOk)
    \/ \E email \in Emails \ {""} : GetStatus(email)
    \/ \E id \in ReqIds : ApproveSelect(id)
    \/ \E h \in inflight : ApproveUpdate(h)
    \/ \E h \in inflight, sendOk \in BOOLEAN : ApproveNotify(h, sendOk)
    \/ \E t \in timers : TimerSelect(t)
    \/ \E t \in timers : TimerUpdate(t)
    \/ \E id \in ReqIds : DownloadSelect(id)
    \/ \E h \in inflight : DownloadCheck(h)
    \/ \E h \in inflight : DownloadUpdate(h)
    \/ \E t \in Instants : Tick(t)
    \/ Restart
    \/ Deliver

Spec == Init /\ [][Next]_vars

\* ---------------------------------------------------------------------
\* the process keeps running and the setTimeout callbacks run when due:
\* the clock is read at whole minutes and does not move on while a callback
\* is due or running
\* ---------------------------------------------------------------------
Minute == 60 * 1000

ScenarioInstants == {0, Minute, LINK_EXPIRY_MS, LINK_EXPIRY_MS + Minute}

TimerDue == \E t \in timers : t.pc = "update" \/ t.due <= now

TickScenario(t) ==
    /\ Quiet
    /\ ~TimerDue
    /\ t > now
    /\ \A u \in ScenarioInstants : u > now => t <= u
    /\ now' = t
    /\ last' = NoResp
    /\ UNCHANGED <<rows, inflight, timers>>

NextScenario ==
    \/ \E name \in Names, email \in Emails, reason \in Reasons, insertOk \in BOOLEAN :
          SubmitInsert(name, email, reason, insertOk)
    \/ \E h \in inflight, adminEmail \in BOOLEAN, sendOk \in BOOLEAN :
          SubmitNotify(h, adminEmail, sendOk)
    \/ \E email \in Emails \ {""} : GetStatus(email)
    \/ \E id \in ReqIds : ApproveSelect(id)
    \/ \E h \in inflight : ApproveUpdate(h)
    \/ \E h \in inflight, sendOk \in BOOLEAN : ApproveNotify(h, sendOk)
    \/ \E t \in timers : TimerSelect(t)
    \/ \E t \in timers : TimerUpdate(t)
    \/ \E id \in ReqIds : DownloadSelect(id)
    \/ \E h \in inflight : DownloadCheck(h)
    \/ \E h \in inflight : DownloadUpdate(h)
    \/ \E t \in ScenarioInstants : TickScenario(t)
    \/ Deliver

SpecScenario == Init /\ [][NextScenario]_vars

TypeOK ==
    /\ now \in Nat
    /\ Len(rows) <= MaxRows
    /\ \A i \in DOMAIN rows : rows[i].status \in {"pending", "approved", "expired"}
    /\ Cardinality(inflight) <= MaxInFlight
    /\ Cardinality(timers) <= MaxTimers

\* =====================================================================
\* Properties
\* =====================================================================
Pending(r) == r.status = "pending" /\ r.approved_at = NULL

\* the row a Download read was approved, stamped, and d ms old when checked
ReadApproved(l) == l.op = "Download" /\ l.r.status = "approved" /\ l.r.approved_at # NULL
Age(l) == l.at - l.r.approved_at

\* C1: a Submit with all three fields non-empty whose INSERT succeeds adds
\* exactly one row, pending with approved_at NULL and holding the submitted
\* fields, under an identifier no earlier row has; the 201 answer returns the
\* identifier of the row this very Submit inserted, and no two Submits in
\* flight hold the same identifier.
C1_SubmitCreatesOnePending ==
    [][ /\ (last'.op = "Submit" /\ last'.outcome = "inserted") =>
              /\ ~MissingField(last'.r.name, last'.r.email, last'.r.reason)
              /\ Len(rows') = Len(rows) + 1
              /\ SubSeq(rows', 1, Len(rows)) = rows
              /\ last'.id = Len(rows')
              /\ last'.id \notin DOMAIN rows
              /\ Pending(rows'[last'.id])
              /\ rows'[last'.id].name = last'.r.name
              /\ rows'[last'.id].email = last'.r.email
              /\ rows'[last'.id].reason = last'.r.reason
              /\ \A h \in inflight : h.op = "Submit" => h.id # last'.id
        /\ (last'.op = "Submit" /\ last'.outcome = "created") =>
              /\ rows' = rows
              /\ last'.ret.id = last'.id
              /\ last'.id \in DOMAIN rows
              /\ \E h \in inflight \ inflight' : h.op = "Submit" /\ h.id = last'.ret.id
              /\ \A h \in inflight' : h.op = "Submit" => h.id # last'.ret.id
      ]_vars

C1_Witness ==
    /\ last.op = "Submit" /\ last.outcome = "created" /\ last.ret.id = 2
    /\ Len(rows) = 2 /\ rows[1].email = rows[2].email

\* C2 (as claimed): when the admin mail fails after the row was stored, Submit
\* still answers success with the new identifier.
C2_AdminMailFailureStillCreated ==
    (last.op = "Submit" /\ last.mail = "failed") =>
        (last.outcome = "created" /\ last.ret.id = last.id)

\* C3 (as claimed): when the requester mail fails during Approve, the row is
\* approved with approved_at set and Approve answers its confirmation.
C3_UserMailFailureStillApproved ==
    (last.op = "Approve" /\ last.mail = "failed") =>
        /\ rows[last.id].status = "approved"
        /\ rows[last.id].approved_at # NULL
        /\ last.outcome = "approved"

\* C4: a Download that read an approved row and, when it checked, found it
\* older than LINK_EXPIRY_MS answers "expired" (no document) and leaves the
\* row expired with approved_at NULL.
C4_LateDownloadExpires ==
    (ReadApproved(last) /\ Age(last) > LINK_EXPIRY_MS) =>
        /\ last.outcome = "expired"
        /\ rows[last.id].status = "expired"
        /\ rows[last.id].approved_at = NULL

C4_Witness ==
    /\ ReadApproved(last) /\ Age(last) = LINK_EXPIRY_MS + 1
    /\ last.outcome = "expired"

\* C5: a Download that read an approved row and, when it checked, found it at
\* most LINK_EXPIRY_MS old (the boundary included) answers the document and
\* writes nothing.
C5_DownloadInWindowServes ==
    [][ (ReadApproved(last') /\ Age(last') <= LINK_EXPIRY_MS) =>
            (last'.outcome = "document" /\ rows' = rows) ]_vars

C5_Witness ==
    /\ ReadApproved(last) /\ Age(last) = LINK_EXPIRY_MS
    /\ last.outcome = "document"
    /\ rows[last.id] = last.r

\* C6 (as claimed): a Download of a pending row answers "forbidden", a
\* Download of an expired row answers "expired"; neither returns the document.
C6_PendingForbiddenExpiredExpired ==
    /\ (last.op = "Download" /\ last.r.status = "pending") => last.outcome = "forbidden"
    /\ (last.op = "Download" /\ last.r.status = "expired") => last.outcome = "expired"

\* C7: the document is returned only by a Download whose SELECT read an
\* approved row with a non-null approved_at that was at most LINK_EXPIRY_MS
\* old when the handler checked it.
C7_DocumentOnlyInsideWindow ==
    (last.op = "Download" /\ last.outcome = "document") =>
        /\ last.r.status = "approved"
        /\ last.r.approved_at # NULL
        /\ Age(last) <= LINK_EXPIRY_MS

\* the document served for an approved row one window old while no
\* setTimeout callback is pending (lost in a restart, or never scheduled)
C7_Witness ==
    /\ last.op = "Download" /\ last.outcome = "document"
    /\ Age(last) = LINK_EXPIRY_MS
    /\ timers = {}
    /\ rows[last.id].status = "approved"

\* C8: the UPDATE of Approve sets the row, whatever its status, to approved
\* with approved_at = the approvalTime the handler took (the clock at its
\* SELECT, non-null) and changes nothing else in the table.
C8_ApproveStampsRow ==
    [][ /\ (last'.op = "Approve" /\ last'.outcome = "updated") =>
              /\ last'.id \in DOMAIN rows
              /\ DOMAIN rows' = DOMAIN rows
              /\ rows'[last'.id] = [rows[last'.id] EXCEPT !.status = "approved",
                                                          !.approved_at = last'.at]
              /\ last'.at # NULL /\ last'.at <= now
              /\ \A j \in DOMAIN rows : j # last'.id => rows'[j] = rows[j]
        /\ \A h \in inflight' \ inflight :
              (h.op = "Approve" /\ h.pc = "update") => h.at = now
      ]_vars

\* an expired row is approved again while another row exists
C8_Witness ==
    /\ last.op = "Approve" /\ last.outcome = "updated"
    /\ last.r.status = "expired"
    /\ Len(rows) = 2
    /\ rows[last.id].status = "approved" /\ rows[last.id].approved_at = now

\* C9: Approve and Download of an identifier no row has answer "not found"
\* and change nothing: no row, no mail, no setTimeout, no document.
C9_UnknownIdNotFound ==
    [][ (last'.op \in {"Approve", "Download"} /\ last'.id \notin DOMAIN rows) =>
            /\ last'.outcome = "not_found"
            /\ last'.mail = "none" /\ ~last'.scheduled
            /\ UNCHANGED <<rows, timers, inflight>> ]_vars

C9_Witness ==
    /\ last.op \in {"Approve", "Download"} /\ last.outcome = "not_found"
    /\ last.id = Len(rows) + 1 /\ Len(rows) >= 1

\* C10: GetStatus answers status none when no row has the email; otherwise the
\* status, id and approved_at of the row with the highest id among those with
\* the email.  It never writes.
C10_GetStatusLatest ==
    [][ last'.op = "GetStatus" =>
            /\ rows' = rows
            /\ IF \A i \in DOMAIN rows : rows[i].email # last'.email
               THEN last'.ret.status = "none"
               ELSE \E i \in DOMAIN rows :
                       /\ rows[i].email = last'.email
                       /\ \A j \in DOMAIN rows : rows[j].email = last'.email => j <= i
                       /\ last'.ret = [status |-> rows[i].status, id |-> i,
                                       approved_at |-> rows[i].approved_at] ]_vars

C10_Witness ==
    /\ last.op = "GetStatus" /\ Len(rows) = 2
    /\ rows[1].email = last.email /\ rows[2].email = last.email
    /\ rows[1].status = "approved" /\ rows[2].status = "pending"
    /\ last.ret.id = 2

\* C11: a Submit in which name, email or reason is empty answers the
\* validation error and has no effect: no row, no identifier used, no mail,
\* nothing left in flight.
C11_MissingFieldRejected ==
    [][ (last'.op = "Submit" /\
         (last'.r.name = "" \/ last'.r.email = "" \/ last'.r.reason = "")) =>
            /\ last'.outcome = "validation"
            /\ last'.mail = "none"
            /\ Len(rows') = Len(rows)
            /\ UNCHANGED <<rows, inflight, timers>> ]_vars

C11_Witness ==
    /\ last.op = "Submit" /\ last.outcome = "validation"
    /\ last.r.name = "Alice" /\ last.r.email = "a@x.com" /\ last.r.reason = ""
    /\ Len(rows) = 1

\* C12 (as claimed): every row whose status is expired has approved_at NULL.
C12_ExpiredHasNoStamp ==
    \A i \in DOMAIN rows : rows[i].status = "expired" => rows[i].approved_at = NULL

\* C13: for every row, status is approved iff approved_at is non-null and
\* status is not expired; no approved row without a stamp, no pending row
\* with one.
C13_ApprovedIffStamped ==
    \A i \in DOMAIN rows :
        /\ rows[i].status = "approved" <=>
              (rows[i].approved_at # NULL /\ rows[i].status # "expired")
        /\ rows[i].status = "approved" => rows[i].approved_at # NULL
        /\ rows[i].status = "pending" => rows[i].approved_at = NULL

\* an expired row that kept its stamp beside an approved and stamped one
C13_Witness ==
    /\ Len(rows) = 2
    /\ rows[1].status = "expired" /\ rows[1].approved_at # NULL
    /\ rows[2].status = "approved" /\ rows[2].approved_at # NULL

\* C14 (as claimed): once a row's status is expired, no step changes it.
C14_ExpiredIsTerminal ==
    [][ \A i \in DOMAIN rows :
            rows[i].status = "expired" => rows'[i].status = "expired" ]_vars

\* C14 (amended): once a row's status is expired, the only step that changes
\* it is the UPDATE of an Approve of that identifier, which makes it approved;
\* Submit, GetStatus, Download and the delayed check leave it expired.
C14_ExpiredLeftOnlyByApprove ==
    [][ \A i \in DOMAIN rows :
            (rows[i].status = "expired" /\ rows'[i].status # "expired") =>
                /\ last'.op = "Approve" /\ last'.outcome = "updated" /\ last'.id = i
                /\ rows'[i].status = "approved" ]_vars

\* the only row, read as expired, has just been approved again
C14_Witness ==
    /\ last.op = "Approve" /\ last.outcome = "updated"
    /\ last.r.status = "expired" /\ last.r.approved_at = NULL
    /\ Len(rows) = 1 /\ rows[1].status = "approved"
    /\ Cardinality(inflight) = 1 /\ timers = {}

\* C15: a pending row is changed by no step other than the UPDATE of an
\* Approve of its own identifier: Download, GetStatus, other Submits and the
\* delayed check of any identifier leave it pending with approved_at NULL.
C15_PendingLeftOnlyByApprove ==
    [][ \A i \in DOMAIN rows :
            (rows[i].status = "pending" /\ rows'[i] # rows[i]) =>
                (last'.op = "Approve" /\ last'.outcome = "updated" /\ last'.id = i) ]_vars

\* row 1 is still pending after row 2 was approved and expired and the window
\* has passed
C15_Witness ==
    /\ Len(rows) = 2 /\ Pending(rows[1])
    /\ rows[2].status = "expired"
    /\ now > LINK_EXPIRY_MS
    /\ last.op = "Download" /\ last.id = 1 /\ last.outcome = "forbidden"

\* C16: rows are never deleted, merged or deduplicated: the identifiers only
\* grow, an INSERT adds a row also when the email is already stored, and the
\* name, email and reason of a row never change.
C16_RowsOnlyAdded ==
    [][ /\ Len(rows') >= Len(rows)
        /\ \A i \in DOMAIN rows :
              /\ rows'[i].name = rows[i].name
              /\ rows'[i].email = rows[i].email
              /\ rows'[i].reason = rows[i].reason
        /\ (last'.op = "Submit" /\ last'.outcome = "inserted") =>
              Len(rows') = Len(rows) + 1 ]_vars

\* a second row with the email of the first has just been inserted
C16_Witness ==
    /\ last.op = "Submit" /\ last.outcome = "inserted" /\ last.id = 2
    /\ Len(rows) = 2 /\ rows[1].email = rows[2].email
    /\ rows[1].status = "approved"

\* C18 (as claimed): the delayed check scheduled by an earlier Approve never
\* expires a row whose current approved_at is less than LINK_EXPIRY_MS old
\* (so a row approved again at T2 serves Downloads until T2 + LINK_EXPIRY_MS).
C18_TimerSparesFreshApproval ==
    [][ (last'.op = "Timer" /\ last'.outcome = "auto_expired") =>
            \/ rows[last'.id].status # "approved"
            \/ now - rows[last'.id].approved_at >= LINK_EXPIRY_MS ]_vars

\* C19 (as claimed): the UPDATE of a Download sets a row to expired with
\* approved_at NULL only if, at that write, the stored row is approved and its
\* approved_at is older than LINK_EXPIRY_MS.
C19_NoLostApproval ==
    [][ (last'.op = "Download" /\ last'.outcome = "expired") =>
            /\ rows[last'.id].status = "approved"
            /\ rows[last'.id].approved_at # NULL
            /\ now - rows[last'.id].approved_at > LINK_EXPIRY_MS ]_vars

\* C19 (amended): the UPDATE of a Download sets a row to expired with
\* approved_at NULL only if the row its SELECT read was approved and its
\* approved_at was older than LINK_EXPIRY_MS when the handler checked it.
C19_ExpiryWriteFollowsRead ==
    (last.op = "Download" /\ last.outcome = "expired") =>
        /\ last.r.status = "approved"
        /\ last.r.approved_at # NULL
        /\ Age(last) > LINK_EXPIRY_MS
        /\ rows[last.id].status = "expired" /\ rows[last.id].approved_at = NULL

\* a Download has just expired a row over an Approve that stamped it after
\* the Download's SELECT and is still in flight
C19_Witness ==
    /\ last.op = "Download" /\ last.outcome = "expired"
    /\ \E h \in inflight :
          /\ h.op = "Approve" /\ h.pc = "notify" /\ h.id = last.id
          /\ h.at > last.r.approved_at
          /\ h.at >= last.at

\* C20 (as claimed): every Approve that stored status approved has scheduled
\* the delayed check when it answers, whether or not the requester mail was
\* sent.
C20_ApproveAlwaysSchedules ==
    (last.op = "Approve" /\ last.outcome \in {"approved", "server_error"}) =>
        /\ last.scheduled
        /\ \E t \in timers : t.id = last.id

\* C17 (as claimed), with the delayed check running as scheduled and T the
\* approved_at the row carries: Submit leaves the row pending; the UPDATE of
\* Approve leaves it approved with approved_at = T; a Download checked at
\* T + 1 min answers the document; a Download checked at T + 4 min answers
\* "expired" (not "forbidden") and the row's status is then expired.
C17_Scenario ==
    /\ (last.op = "Submit" /\ last.outcome = "inserted") => Pending(rows[last.id])
    /\ (last.op = "Approve" /\ last.outcome = "updated") =>
          (rows[last.id].status = "approved" /\ rows[last.id].approved_at = last.at)
    /\ (ReadApproved(last) /\ Age(last) = Minute) => last.outcome = "document"
    /\ (last.op = "Download" /\ last.r.approved_at # NULL /\ Age(last) = 4 * Minute) =>
          (last.outcome = "expired" /\ rows[last.id].status = "expired")
====
